---- MODULE Spec2Model ----
(***************************************************************************)
(* Model of the NATS JetStream input (internal/impl/nats/                  *)
(* input_jetstream.go): the jetStreamReader's connection state guarded by  *)
(* connMut, Connect with its deferred rollback, disconnect, ReadBatch in   *)
(* push and pull mode with the ack closures it returns, and Close with its *)
(* background disconnect goroutine and the one-shot shutdown signaller.    *)
(*                                                                         *)
(* The NATS client library and the connection provider are the             *)
(* environment: every call into them picks its outcome nondeterministically*)
(* among the outcomes its Go signature allows.                             *)
(***************************************************************************)
EXTENDS Integers, Sequences, FiniteSets, TLC

\* ---------------------------------------------------------------- bounds
\* Calls of Connect, ReadBatch and Close made in one behaviour, all callers
\* together.
MaxCalls == 4
\* Messages one Fetch may hand back (the code ranges over whatever it gets).
MaxFetch == 2
\* Consecutive timed-out Fetch attempts of one ReadBatch call.
MaxTimeouts == 3

\* Goroutines of the pipeline that call into the reader: p1 connects, reads and
\* closes; p2 connects while p1 does.
Callers == {"p1", "p2"}
CallsOf(t) ==
  IF t = "p1" THEN {"Connect", "ReadBatch", "Close"} ELSE {"Connect"}

\* A nil *nats.Conn (connections are numbered from 1).
Nil == 0
\* A *nats.Subscription: subscriptions are numbered from 1; a subscription is
\* a pull or a push subscription and belongs to the connection it was opened
\* on, for good.
Sub(id, c, p) == [id |-> id, conn |-> c, pull |-> p]
\* A nil *nats.Subscription.
NilSub == Sub(0, 0, FALSE)
\* A nil error.
NoErr == "nil"
\* No goroutine holds connMut.
Free == "free"

\* ------------------------------------------------------------------ state
VARIABLES
  conf,      \* j.stream, j.durable, j.bind and the subject as configured
  built,     \* newJetStreamReaderFromConfig returned a reader (not an error)
  subject,   \* j.subject
  pull,      \* j.pull
  connMut,   \* holder of j.connMut, or Free
  natsConn,  \* j.natsConn
  natsSub,   \* j.natsSub
  shutSig,   \* j.shutSig: TRUE once TriggerHasStopped was called
  pc,        \* per caller: where it is in the call it runs
  ctx,       \* per caller: state of the context of the call it runs
  lSub,      \* per caller: ReadBatch's local natsSub
  lErr,      \* per caller: the err of the last Fetch
  lGo,       \* per caller: the goroutine its Close launched
  timeouts,  \* per caller: consecutive timed-out attempts of that ReadBatch
  turn,      \* per caller: flips each time its fetch loop continues at line 377
  ret,       \* what the call that returned in the last step handed back, if any
  ackFn,     \* per caller: the AckFunc its last ReadBatch returned, until invoked
  bg,        \* the goroutines Close has launched, in launch order
  nats,      \* broker side: the open connections, the active subscriptions,
             \* and the calls made on a handle that was released before
  reads,     \* broker side: NextMsg/Fetch calls, per caller's current ReadBatch
  calls      \* calls started so far

config == <<conf, built, subject, pull>>
stored == <<connMut, natsConn, natsSub>>
frame  == <<ctx, lSub, lErr, lGo, timeouts, turn>>
broker == <<nats, reads>>
vars   == <<conf, built, subject, pull, connMut, natsConn, natsSub, shutSig,
            pc, ctx, lSub, lErr, lGo, timeouts, turn,
            ret, ackFn, bg, nats, reads, calls>>

\* ----------------------------------------------------------- construction
Subjects == {"", "foo"}
Streams  == {"", "S"}
Durables == {"", "D"}

\* The configurations construction is tried on. (j.queue is left out: it
\* selects QueueSubscribeSync over SubscribeSync at line 293 and nothing else.)
ConfigSpace ==
  [subject : Subjects, stream : Streams, durable : Durables, bind : BOOLEAN]

\* The validation with its else branch testing the subject alone.
ConfigErrorSubjectOnly(c) ==
  IF c.bind
    THEN c.stream = "" /\ c.durable = ""
    ELSE c.subject = ""

\* The validation at the end of newJetStreamReaderFromConfig.
ConfigError(c) ==
  IF c.bind
    THEN c.stream = "" /\ c.durable = ""
    ELSE c.subject = "" /\ c.stream = ""

\* ret: the caller and the call (or "AckFunc"), the error and batch returned;
\* for a ReadBatch the handle it sampled, the branch it took (mode), the
\* broker calls it made and whether its context was done as it returned; for
\* a Close what its select saw; for an AckFunc its argument, the messages
\* whose Ack or Nak fails and the Ack and Nak calls it made; for a Connect
\* the handles it created, whether it looked the consumer up and the
\* DeliverSubject and FilterSubject it was told; for a ReadBatch also the error
\* of its last broker call (berr); for a disconnect (op "disconnect", as it releases
\* connMut) the handles it found stored.
NoRet == [caller |-> "", op |-> "none", err |-> NoErr, batch |-> <<>>,
          reads |-> {}, stopped |-> FALSE, ctxDone |-> FALSE, bgDone |-> FALSE,
          arg |-> NoErr, calls |-> <<>>, conn |-> Nil, sub |-> NilSub,
          mode |-> "none", failing |-> {},
          lookup |-> FALSE, info |-> [ok |-> FALSE, deliver |-> "", filter |-> ""],
          berr |-> NoErr]
NoAckFn == [set |-> FALSE, mode |-> "none", msgs |-> <<>>]

Init ==
  /\ conf \in ConfigSpace
  /\ built = ~ConfigError(conf)
  /\ subject = conf.subject
  /\ pull = FALSE
  /\ connMut = Free
  /\ natsConn = Nil
  /\ natsSub = NilSub
  /\ shutSig = FALSE
  /\ pc = [t \in Callers |-> "idle"]
  /\ ctx = [t \in Callers |-> "active"]
  /\ lSub = [t \in Callers |-> NilSub]
  /\ lErr = [t \in Callers |-> NoErr]
  /\ lGo = [t \in Callers |-> 0]
  /\ timeouts = [t \in Callers |-> 0]
  /\ turn = [t \in Callers |-> FALSE]
  /\ ret = NoRet
  /\ ackFn = [t \in Callers |-> NoAckFn]
  /\ bg = <<>>
  /\ nats = [conns |-> {}, subs |-> {}, misused |-> {}]
  /\ reads = [t \in Callers |-> {}]
  /\ calls = 0

\* ------------------------------------------------------------------ calls
\* The step is no return of a call.
Quiet == ret' = NoRet

\* A caller that is between calls starts one; an AckFunc it still holds is
\* dropped.
Begin(t, op) ==
  /\ built
  /\ pc[t] = "idle"
  /\ op \in CallsOf(t)
  /\ calls < MaxCalls
  /\ calls' = calls + 1
  /\ pc' = [pc EXCEPT ![t] = op]
  /\ ackFn' = [ackFn EXCEPT ![t] = NoAckFn]
  /\ Quiet
  /\ UNCHANGED <<config, stored, shutSig, frame, bg, broker>>

\* ctx.Err() of a context that is done.
CtxErr(c) == IF c = "deadline" THEN "DeadlineExceeded" ELSE "Canceled"

\* The context of a ReadBatch or Close in progress is cancelled or reaches its
\* deadline. (Connect hands its context to the connection provider only.)
CtxDone(t, how) ==
  /\ pc[t] \in {"ReadBatch", "r_mode", "r_next", "r_fetch", "r_select",
                "Close", "cl_select"}
  /\ ctx[t] = "active"
  /\ ctx' = [ctx EXCEPT ![t] = how]
  /\ Quiet
  /\ UNCHANGED <<config, stored, shutSig, pc, lSub, lErr, lGo,
                 timeouts, turn, ackFn, bg, broker, calls>>

\* What the call op of t hands back to its caller.
Returned(t, op, e) == [NoRet EXCEPT !.caller = t, !.op = op, !.err = e]

\* The call of t returns r: its locals and its context go out of scope.
Leave(t, r) ==
  /\ pc' = [pc EXCEPT ![t] = "idle"]
  /\ ret' = r
  /\ ctx' = [ctx EXCEPT ![t] = "active"]
  /\ lSub' = [lSub EXCEPT ![t] = NilSub]
  /\ lErr' = [lErr EXCEPT ![t] = NoErr]
  /\ lGo' = [lGo EXCEPT ![t] = 0]
  /\ timeouts' = [timeouts EXCEPT ![t] = 0]
  /\ turn' = [turn EXCEPT ![t] = FALSE]
  /\ reads' = [reads EXCEPT ![t] = {}]

\* The call of t moves on to step p.
Goto(t, p) == pc' = [pc EXCEPT ![t] = p] /\ Quiet

\* ---------------------------------------------------------------- Connect
\* Line 223 without its check: Connect opens a connection whatever it holds.
AlreadyConnectedSkipped == FALSE

\* Line 223: the reader already holds a connection.
AlreadyConnected == natsConn # Nil

\* Line 250: the consumer is looked up only when binding to a named consumer
\* of a named stream.
BindsConsumer == conf.bind /\ conf.stream # "" /\ conf.durable # ""

\* The smallest number from 1 that is not in S.
Smallest(S) ==
  CHOOSE n \in 1..(Cardinality(S) + 1) :
    n \notin S /\ \A m \in 1..(n - 1) : m \in S

\* A handle the broker hands out is new: it differs from every handle that is
\* open or that the program still holds.
HeldSubs == {natsSub} \cup {lSub[t] : t \in Callers}
NewConn ==
  Smallest(nats.conns \cup {natsConn} \cup {s.conn : s \in nats.subs \cup HeldSubs})
NewSubId == Smallest({s.id : s \in nats.subs \cup HeldSubs})

\* Subscription.Drain as the broker sees it: the subscription is active no
\* more; a Drain of a subscription that is not active is a misuse.
Drain(b, s) ==
  IF s \in b.subs
    THEN [b EXCEPT !.subs = @ \ {s}]
    ELSE [b EXCEPT !.misused = @ \cup {"Drain"}]

\* Conn.Close as the broker sees it: the connection is open no more, nor are
\* the subscriptions on it; a Close of a connection that is not open, or that
\* still has an active subscription, is a misuse.
CloseConn(b, c) ==
  IF c \in b.conns
    THEN LET on == {s \in b.subs : s.conn = c}
         IN  [b EXCEPT !.conns = @ \ {c}, !.subs = @ \ on,
                       !.misused = IF on = {} THEN @ ELSE @ \cup {"CloseUndrained"}]
    ELSE [b EXCEPT !.misused = @ \cup {"Close"}]

\* Lines 220-225: take connMut; return nil at once when already connected.
ConnectEnter(t) ==
  /\ pc[t] = "Connect"
  /\ connMut = Free
  /\ IF AlreadyConnected
       THEN /\ Leave(t, Returned(t, "Connect", NoErr))
            /\ UNCHANGED connMut
       ELSE /\ Goto(t, "c_open")
            /\ connMut' = t
            /\ UNCHANGED <<frame, reads>>
  /\ UNCHANGED <<config, natsConn, natsSub, shutSig, ackFn, bg, nats, calls>>

\* Lines 256-262: the subject Connect subscribes with, given the consumer's
\* DeliverSubject d and FilterSubject f.
ResolveSubject(cur, d, f) ==
  IF cur = ""
    THEN IF d # "" THEN d ELSE IF f # "" THEN f ELSE cur
    ELSE cur

\* Line 264.
ResolvePull(d) == d = ""

DeliverSubjects == {"", "X"}
FilterSubjects == {"", "F"}

\* The error a call of Connect fails with.
ConnectErr(step) == "Err" \o step

\* Lines 232-234 left out: the connection is closed with its subscription
\* still active.
RollbackSubSkipped(b, s) == b

\* Lines 232-234 of the deferred function.
RollbackSub(b, s) == IF s # NilSub THEN Drain(b, s) ELSE b

\* Lines 235-237 left out: a failed Connect leaves its connection open.
RollbackConnSkipped(b, c) == b

\* Lines 235-237 of the deferred function.
RollbackConn(b, c) == IF c # Nil THEN CloseConn(b, c) ELSE b

\* Lines 227-305, with connMut held throughout: get the connection (241),
\* open the JetStream context (245), look the consumer up when binding (250-
\* 265; d and f are its DeliverSubject and FilterSubject), subscribe (267-
\* 298), store both handles and return nil (303-305). fail names the call
\* that fails, if any: then the deferred function (230-239) drains the
\* subscription and closes the connection this call created and err is
\* returned. A failed subscribe may or may not hand back a handle.
ConnectOpen(t, fail, handle, d, f) ==
  /\ pc[t] = "c_open"
  /\ fail \in {"", "get", "JetStream", "Subscribe"}
              \cup (IF BindsConsumer THEN {"ConsumerInfo"} ELSE {})
  /\ LET gotConn == fail # "get"
         c       == IF gotConn THEN NewConn ELSE Nil
         looked  == BindsConsumer /\ fail \in {"", "ConsumerInfo", "Subscribe"}
         infoOk  == BindsConsumer /\ fail \in {"", "Subscribe"}
         info    == IF infoOk THEN [ok |-> TRUE, deliver |-> d, filter |-> f]
                              ELSE NoRet.info
         subj    == IF infoOk THEN ResolveSubject(subject, d, f) ELSE subject
         pl      == IF infoOk THEN ResolvePull(d) ELSE pull
         gotSub  == fail = "" \/ (fail = "Subscribe" /\ handle)
         s       == IF gotSub THEN Sub(NewSubId, c, pl) ELSE NilSub
         opened  == [nats EXCEPT !.conns = IF gotConn THEN @ \cup {c} ELSE @,
                                 !.subs = IF gotSub THEN @ \cup {s} ELSE @]
     IN  /\ subject' = subj
         /\ pull' = pl
         /\ IF fail = ""
              THEN /\ natsConn' = c
                   /\ natsSub' = s
                   /\ nats' = opened
                   /\ Leave(t, [Returned(t, "Connect", NoErr)
                                  EXCEPT !.conn = c, !.sub = s,
                                         !.lookup = looked, !.info = info])
              ELSE /\ nats' = RollbackConn(RollbackSub(opened, s), c)
                   /\ UNCHANGED <<natsConn, natsSub>>
                   /\ Leave(t, [Returned(t, "Connect", ConnectErr(fail))
                                  EXCEPT !.conn = c, !.sub = s,
                                         !.lookup = looked, !.info = info])
  /\ connMut' = Free
  /\ UNCHANGED <<conf, built, shutSig, ackFn, bg, calls>>

\* ------------------------------------------------------------- disconnect
\* Line 309: a goroutine running disconnect takes connMut.
DisconnectLock(g) ==
  /\ bg[g] = "lock"
  /\ connMut = Free
  /\ connMut' = "bg"
  /\ bg' = [bg EXCEPT ![g] = "locked"]
  /\ Quiet
  /\ UNCHANGED <<config, natsConn, natsSub, shutSig, pc, frame, ackFn, broker,
                 calls>>

\* The handles the reader stores, with the broker: what disconnect works on.
Held == [natsConn |-> natsConn, natsSub |-> natsSub, nats |-> nats]

\* Lines 312-315 without line 314: the drained subscription stays stored.
DisconnectSubKept(j) ==
  IF j.natsSub # NilSub
    THEN [j EXCEPT !.nats = Drain(@, j.natsSub)]
    ELSE j

\* Lines 312-315: drain the subscription, if one is held, and forget it.
DisconnectSub(j) ==
  IF j.natsSub # NilSub
    THEN [j EXCEPT !.nats = Drain(@, j.natsSub), !.natsSub = NilSub]
    ELSE j

\* Lines 316-319 without the nil check of line 316.
DisconnectConnUnguarded(j) ==
  [j EXCEPT !.nats = CloseConn(@, j.natsConn), !.natsConn = Nil]

\* Lines 316-319: close the connection, if one is held, and forget it.
DisconnectConn(j) ==
  IF j.natsConn # Nil
    THEN [j EXCEPT !.nats = CloseConn(@, j.natsConn), !.natsConn = Nil]
    ELSE j

\* Lines 312-320: the body of disconnect, then the deferred Unlock.
Disconnect(g) ==
  /\ bg[g] = "locked"
  /\ LET j == DisconnectConn(DisconnectSub(Held))
     IN  /\ nats' = j.nats
         /\ natsSub' = j.natsSub
         /\ natsConn' = j.natsConn
  /\ connMut' = Free
  /\ bg' = [bg EXCEPT ![g] = "trigger"]
  /\ ret' = [NoRet EXCEPT !.op = "disconnect", !.sub = natsSub, !.conn = natsConn]
  /\ UNCHANGED <<config, shutSig, pc, frame, ackFn, reads, calls>>

\* shutdown.Signaller: TriggerHasStopped closes the has-stopped channel, once
\* and for good; a second trigger changes nothing.
TriggerStopped(sig) == TRUE

\* Line 409: j.shutSig.TriggerHasStopped(); the goroutine ends.
TriggerHasStopped(g) ==
  /\ bg[g] = "trigger"
  /\ shutSig' = TriggerStopped(shutSig)
  /\ bg' = [bg EXCEPT ![g] = "done"]
  /\ Quiet
  /\ UNCHANGED <<config, stored, pc, frame, ackFn, broker, calls>>

\* ------------------------------------------------------------------ Close
\* Lines 407-410: launch the goroutine.
CloseGo(t) ==
  /\ pc[t] = "Close"
  /\ bg' = Append(bg, "lock")
  /\ lGo' = [lGo EXCEPT ![t] = Len(bg) + 1]
  /\ Goto(t, "cl_select")
  /\ UNCHANGED <<config, stored, shutSig, ctx, lSub, lErr, timeouts, turn, ackFn,
                 broker, calls>>

\* Line 412: the HasStoppedChan case of the select can be taken.
HasStopped == shutSig

\* Lines 411-417: the select; when both channels are ready Go picks either.
\* What the call saw when it chose is kept with its result: the signal, its
\* context, and whether the disconnect of its own goroutine had returned.
CloseSelect(t, stop) ==
  /\ pc[t] = "cl_select"
  /\ IF stop THEN HasStopped ELSE ctx[t] # "active"
  /\ Leave(t, [Returned(t, "Close", IF stop THEN NoErr ELSE CtxErr(ctx[t]))
                 EXCEPT !.stopped = shutSig, !.ctxDone = ctx[t] # "active",
                        !.bgDone = bg[lGo[t]] \in {"trigger", "done"}])
  /\ UNCHANGED <<config, stored, shutSig, ackFn, bg, nats, calls>>

\* -------------------------------------------------------------- ReadBatch
\* Lines 419-440: the envelope built from a broker message.
convertMessage(m) == [data |-> m]

\* Line 341 without its check: a nil handle is read from.
NotConnectedIgnored(s) == FALSE

\* Line 341: the sampled handle is nil.
NotConnected(s) == s = NilSub

\* What a ReadBatch of t that sampled s and took branch m hands back with
\* the error e, after the broker calls made.
ReadReturned(t, s, m, e, made) ==
  [Returned(t, "ReadBatch", e)
     EXCEPT !.sub = s, !.mode = m, !.reads = made, !.ctxDone = ctx[t] # "active",
            !.berr = lErr[t]]

\* Lines 338-343 with the Unlock of line 340 deferred: connMut stays held
\* while the call waits on the broker.
ReadSampleKeepsLock(t) ==
  /\ pc[t] = "ReadBatch"
  /\ connMut = Free
  /\ IF NotConnected(natsSub)
       THEN /\ Leave(t, ReadReturned(t, natsSub, "none", "ErrNotConnected", reads[t]))
            /\ UNCHANGED connMut
       ELSE /\ lSub' = [lSub EXCEPT ![t] = natsSub]
            /\ connMut' = t
            /\ Goto(t, "r_mode")
            /\ UNCHANGED <<ctx, lErr, lGo, timeouts, turn, reads>>
  /\ UNCHANGED <<config, natsConn, natsSub, shutSig, ackFn, bg, nats, calls>>

\* Lines 338-343: sample j.natsSub under connMut; ErrNotConnected when nil.
ReadSample(t) ==
  /\ pc[t] = "ReadBatch"
  /\ connMut = Free
  /\ IF NotConnected(natsSub)
       THEN Leave(t, ReadReturned(t, natsSub, "none", "ErrNotConnected", reads[t]))
       ELSE /\ lSub' = [lSub EXCEPT ![t] = natsSub]
            /\ Goto(t, "r_mode")
            /\ UNCHANGED <<ctx, lErr, lGo, timeouts, turn, reads>>
  /\ UNCHANGED <<config, stored, shutSig, ackFn, bg, nats, calls>>

\* Line 345: j.pull is read without connMut.
ReadMode(t) ==
  /\ pc[t] = "r_mode"
  /\ Goto(t, IF ~pull THEN "r_next" ELSE "r_fetch")
  /\ UNCHANGED <<config, stored, shutSig, frame, ackFn, bg, broker, calls>>

\* The errors a receive or a fetch that observes the call's context can end in.
CtxErrors(t) == IF ctx[t] = "active" THEN {} ELSE {CtxErr(ctx[t])}

\* The i-th message handle of the batch the broker hands to caller t.
Msg(t, i) == <<t, i>>

\* Lines 352-357 without the check of err: the message is always acked.
PushAckFuncAlwaysAck(nmsg, err, failing) ==
  [calls |-> << <<"Ack", nmsg>> >>,
   err |-> IF nmsg \in failing THEN "ErrAck" ELSE NoErr]

\* Lines 352-357: the AckFunc of a push-mode batch.
PushAckFunc(nmsg, err, failing) ==
  LET verb == IF err # NoErr THEN "Nak" ELSE "Ack"
  IN  [calls |-> << <<verb, nmsg>> >>,
       err |-> IF nmsg \in failing THEN "Err" \o verb ELSE NoErr]

\* Lines 346-357: NextMsgWithContext returns a message or an error.
ReadNextMsg(t, e) ==
  /\ pc[t] = "r_next"
  /\ e \in {NoErr, "ErrOther"} \cup CtxErrors(t)
  /\ LET made == reads[t] \cup {<<"NextMsg", lSub[t]>>}
     IN  IF e # NoErr
           THEN /\ Leave(t, [ReadReturned(t, lSub[t], "push", e, made)
                               EXCEPT !.berr = e])
                /\ UNCHANGED ackFn
           ELSE /\ Leave(t, [ReadReturned(t, lSub[t], "push", NoErr, made)
                               EXCEPT !.batch = <<convertMessage(Msg(t, 1))>>])
                /\ ackFn' = [ackFn EXCEPT ![t] =
                     [set |-> TRUE, mode |-> "push", msgs |-> <<Msg(t, 1)>>]]
  /\ UNCHANGED <<config, stored, shutSig, bg, nats, calls>>

\* Line 364 with its first test only: the deadline of the bounded wait is not
\* taken for a timeout.
IsTimeoutBrokerOnly(e) == e = "ErrTimeout"

\* Line 364 taking every error for a timeout.
IsTimeoutAnyError(e) == e # NoErr

\* Line 364: the error is a per-attempt timeout.
IsTimeout(e) == e \in {"ErrTimeout", "DeadlineExceeded"}

\* Line 360: the length of buf.
BufLen == 10

\* Lines 380-386: buf[:len(msgs)] after every message was converted into buf.
Batch(msgs) == [i \in 1..Len(msgs) |-> convertMessage(msgs[i])]

\* Lines 388-393 and 396-401 without the return inside the loop: every
\* message is settled and the first failure is returned at the end.
RECURSIVE SettleAll(_, _, _)
SettleAll(msgs, verb, failing) ==
  IF msgs = <<>>
    THEN [calls |-> <<>>, err |-> NoErr]
    ELSE LET rest == SettleAll(Tail(msgs), verb, failing)
         IN  [calls |-> << <<verb, Head(msgs)>> >> \o rest.calls,
              err |-> IF Head(msgs) \in failing THEN "Err" \o verb ELSE rest.err]

\* Lines 388-393 and 396-401: call Nak (or Ack) on the messages in order,
\* stopping at the first call that fails.
RECURSIVE Settle(_, _, _)
Settle(msgs, verb, failing) ==
  IF msgs = <<>>
    THEN [calls |-> <<>>, err |-> NoErr]
    ELSE IF Head(msgs) \in failing
      THEN [calls |-> << <<verb, Head(msgs)>> >>, err |-> "Err" \o verb]
      ELSE LET rest == Settle(Tail(msgs), verb, failing)
           IN  [calls |-> << <<verb, Head(msgs)>> >> \o rest.calls,
                err |-> rest.err]

\* Lines 386-402 with the test of line 387 inverted.
PullAckFuncInverted(msgs, err, failing) ==
  IF err = NoErr THEN Settle(msgs, "Nak", failing)
                 ELSE Settle(msgs, "Ack", failing)

\* Lines 386-402: the AckFunc of a pull-mode batch.
PullAckFunc(msgs, err, failing) ==
  IF err # NoErr THEN Settle(msgs, "Nak", failing)
                 ELSE Settle(msgs, "Ack", failing)

\* Lines 376-378 left out: an empty result is returned as a batch.
NoMessagesIgnored(msgs) == FALSE

\* Line 376: the fetch handed back no message.
NoMessages(msgs) == Len(msgs) = 0

\* Lines 380-384: buf has room for the messages; the assignment buf[i] = msg
\* panics (index out of range) on the first message it has no room for.
Fits(msgs) == Len(msgs) <= BufLen

\* Lines 362-386: natsSub.Fetch(1, nats.Context(ctx), nats.MaxWait(500ms))
\* returns k messages or the error e. A timeout goes on to the select on
\* ctx.Done(); any other error is returned; no message at all is another turn
\* of the loop; messages are returned as a batch with its AckFunc.
ReadFetch(t, e, k) ==
  /\ pc[t] = "r_fetch"
  /\ e \in {NoErr, "ErrTimeout", "DeadlineExceeded", "ErrOther"} \cup CtxErrors(t)
  /\ e # NoErr => k = 0
  /\ IsTimeout(e) => timeouts[t] < MaxTimeouts
  /\ LET msgs == [i \in 1..k |-> Msg(t, i)]
         made == reads[t] \cup {<<"Fetch", lSub[t]>>}
     IN  IF e # NoErr
           THEN IF IsTimeout(e)
                  THEN /\ lErr' = [lErr EXCEPT ![t] = e]
                       /\ reads' = [reads EXCEPT ![t] = made]
                       /\ Goto(t, "r_select")
                       /\ UNCHANGED <<ackFn, ctx, lSub, lGo,
                                      timeouts, turn>>
                  ELSE /\ Leave(t, [ReadReturned(t, lSub[t], "pull", e, made)
                                      EXCEPT !.berr = e])
                       /\ UNCHANGED ackFn
           ELSE IF NoMessages(msgs)
                  THEN /\ timeouts' = [timeouts EXCEPT ![t] = 0]
                       /\ turn' = [turn EXCEPT ![t] = ~@]
                       /\ reads' = [reads EXCEPT ![t] = made]
                       /\ Quiet
                       /\ UNCHANGED <<pc, ackFn, ctx, lSub, lErr, lGo>>
                  ELSE IF ~Fits(msgs)
                         THEN /\ Goto(t, "panic")
                              /\ UNCHANGED <<ackFn, frame, reads>>
                         ELSE /\ Leave(t, [ReadReturned(t, lSub[t], "pull", NoErr, made)
                                             EXCEPT !.batch = Batch(msgs)])
                              /\ ackFn' = [ackFn EXCEPT ![t] =
                                   [set |-> TRUE, mode |-> "pull", msgs |-> msgs]]
  /\ UNCHANGED <<config, stored, shutSig, bg, nats, calls>>

\* Lines 367-372: after a timeout, return ctx.Err() when the caller's context
\* is done, else fetch again.
ReadSelect(t) ==
  /\ pc[t] = "r_select"
  /\ IF ctx[t] # "active"
       THEN Leave(t, ReadReturned(t, lSub[t], "pull", CtxErr(ctx[t]), reads[t]))
       ELSE /\ Goto(t, "r_fetch")
            /\ timeouts' = [timeouts EXCEPT ![t] = @ + 1]
            /\ lErr' = [lErr EXCEPT ![t] = NoErr]
            /\ UNCHANGED <<ctx, lSub, lGo, turn, reads>>
  /\ UNCHANGED <<config, stored, shutSig, ackFn, bg, nats, calls>>

\* The messages an AckFunc holds.
HeldMsgs(t) == {ackFn[t].msgs[i] : i \in 1..Len(ackFn[t].msgs)}

\* The pipeline invokes the AckFunc of the batch it was handed, once, with nil
\* or with an error; each Ack or Nak call may fail.
InvokeAck(t, err, failing) ==
  /\ pc[t] = "idle"
  /\ ackFn[t].set
  /\ LET r == IF ackFn[t].mode = "push"
                THEN PushAckFunc(ackFn[t].msgs[1], err, failing)
                ELSE PullAckFunc(ackFn[t].msgs, err, failing)
     IN  ret' = [Returned(t, "AckFunc", r.err)
                   EXCEPT !.arg = err, !.calls = r.calls, !.failing = failing,
                          !.mode = ackFn[t].mode,
                          !.batch = Batch(ackFn[t].msgs)]
  /\ ackFn' = [ackFn EXCEPT ![t] = NoAckFn]
  /\ UNCHANGED <<config, stored, shutSig, pc, frame, bg, broker, calls>>

\* ---------------------------------------------------------- specification
Next ==
  \/ \E t \in Callers : \E op \in {"Connect", "ReadBatch", "Close"} : Begin(t, op)
  \/ \E t \in Callers : \E how \in {"canceled", "deadline"} : CtxDone(t, how)
  \/ \E t \in Callers : ConnectEnter(t)
  \/ \E t \in Callers :
       \E fail \in {"", "get", "JetStream", "ConsumerInfo", "Subscribe"} :
         \E handle \in BOOLEAN :
           \E d \in DeliverSubjects : \E f \in FilterSubjects :
             ConnectOpen(t, fail, handle, d, f)
  \/ \E g \in DOMAIN bg : DisconnectLock(g)
  \/ \E g \in DOMAIN bg : Disconnect(g)
  \/ \E g \in DOMAIN bg : TriggerHasStopped(g)
  \/ \E t \in Callers : CloseGo(t)
  \/ \E t \in Callers : \E stop \in BOOLEAN : CloseSelect(t, stop)
  \/ \E t \in Callers : ReadSample(t)
  \/ \E t \in Callers : ReadMode(t)
  \/ \E t \in Callers :
       \E e \in {NoErr, "ErrOther", "Canceled", "DeadlineExceeded"} :
         ReadNextMsg(t, e)
  \/ \E t \in Callers :
       \E e \in {NoErr, "ErrTimeout", "ErrOther", "Canceled", "DeadlineExceeded"} :
         \E k \in 0..MaxFetch \cup {BufLen + 1} : ReadFetch(t, e, k)
  \/ \E t \in Callers : ReadSelect(t)
  \/ \E t \in Callers : \E err \in {NoErr, "ErrProcessing"} :
       \E failing \in SUBSET HeldMsgs(t) : InvokeAck(t, err, failing)

Spec == Init /\ [][Next]_vars

\* The Go scheduler runs every goroutine that can take a step, and every
\* broker call returns: NextMsgWithContext and Fetch are bounded by the
\* context they are given and Fetch by its MaxWait as well. What a broker call
\* returns stays the broker's choice.
Fairness ==
  /\ \A t \in Callers :
       /\ WF_vars(ConnectEnter(t))
       /\ WF_vars(\E fail \in {"", "get", "JetStream", "ConsumerInfo", "Subscribe"} :
                    \E handle \in BOOLEAN :
                      \E d \in DeliverSubjects : \E f \in FilterSubjects :
                        ConnectOpen(t, fail, handle, d, f))
       /\ WF_vars(CloseGo(t))
       /\ WF_vars(\E stop \in BOOLEAN : CloseSelect(t, stop))
       /\ WF_vars(ReadSample(t))
       /\ WF_vars(ReadMode(t))
       /\ WF_vars(\E e \in {NoErr, "ErrOther", "Canceled", "DeadlineExceeded"} :
                    ReadNextMsg(t, e))
       /\ WF_vars(\E e \in {NoErr, "ErrTimeout", "ErrOther", "Canceled",
                              "DeadlineExceeded"} :
                    \E k \in 0..MaxFetch \cup {BufLen + 1} : ReadFetch(t, e, k))
       /\ WF_vars(ReadSelect(t))
  /\ WF_vars(\E g \in DOMAIN bg : DisconnectLock(g))
  /\ WF_vars(\E g \in DOMAIN bg : Disconnect(g))
  /\ WF_vars(\E g \in DOMAIN bg : TriggerHasStopped(g))

FairSpec == Spec /\ Fairness

\* ----------------------------------------------------------------- claims
\* C1: Connect is idempotent. While the reader holds a connection, every
\* Connect that returns returns nil, and it has acquired no connection, looked
\* up no consumer and opened no subscription: the broker, the stored handles
\* and the resolved subject and mode are what they were.
C1_ConnectIdempotent ==
  [][(natsConn # Nil /\ ret'.op = "Connect") =>
       /\ ret'.err = NoErr
       /\ ret'.conn = Nil /\ ret'.sub = NilSub
       /\ nats' = nats
       /\ natsConn' = natsConn /\ natsSub' = natsSub
       /\ subject' = subject /\ pull' = pull]_vars

\* A Connect returned nil without opening anything, the reader being connected.
C1_Witness ==
  /\ ret.op = "Connect" /\ ret.err = NoErr
  /\ ret.conn = Nil /\ ret.sub = NilSub
  /\ natsConn # Nil /\ natsSub # NilSub

\* C2: a Connect that fails, at whichever step, returns that step's error,
\* has released every handle it created (so the broker's open connections and
\* active subscriptions are what they were, with no misuse), and leaves the
\* reader with neither a connection nor a subscription stored.
C2_ConnectFailureRollsBack ==
  [][(ret'.op = "Connect" /\ ret'.err # NoErr) =>
       /\ ret'.err \in {ConnectErr(f) :
                          f \in {"get", "JetStream", "ConsumerInfo", "Subscribe"}}
       /\ ret'.conn \notin nats'.conns
       /\ ret'.sub \notin nats'.subs
       /\ nats' = nats
       /\ natsConn' = Nil /\ natsSub' = NilSub]_vars

\* A Connect failed after it had created a connection and a subscription.
C2_Witness ==
  /\ ret.op = "Connect" /\ ret.err = ConnectErr("Subscribe")
  /\ ret.conn # Nil /\ ret.sub # NilSub
  /\ natsConn = Nil /\ natsSub = NilSub

\* C3: whenever connMut is free, the reader stores at most one connection and
\* at most one subscription, they are the only ones it has open at the
\* broker, and a stored subscription comes with the stored connection it was
\* opened on.
C3_HandlesInvariant ==
  connMut = Free =>
    /\ nats.conns = {natsConn} \ {Nil}
    /\ nats.subs = {natsSub} \ {NilSub}
    /\ Cardinality(nats.conns) <= 1 /\ Cardinality(nats.subs) <= 1
    /\ natsSub # NilSub => (natsConn # Nil /\ natsSub.conn = natsConn)
    /\ natsConn # Nil => natsSub # NilSub

\* The reader is connected again after a disconnect, with a read and another
\* disconnect under way.
C3_Witness ==
  /\ connMut = Free /\ natsConn # Nil /\ natsSub # NilSub
  /\ \E g \in DOMAIN bg : bg[g] = "done"
  /\ \E g \in DOMAIN bg : bg[g] = "lock"

\* C4: disconnect always ends with neither handle stored. When it finds the
\* reader connected it drains the subscription, then closes the connection,
\* with no misuse of either; when it finds nothing stored it makes no broker
\* call and changes nothing.
C4_DisconnectTotal ==
  [][ret'.op = "disconnect" =>
       /\ natsConn' = Nil /\ natsSub' = NilSub
       /\ nats'.misused = nats.misused
       /\ IF natsConn = Nil /\ natsSub = NilSub
            THEN nats' = nats
            ELSE /\ nats'.conns = nats.conns \ {natsConn}
                 /\ nats'.subs = nats.subs \ {natsSub}
                 /\ natsConn \notin nats'.conns
                 /\ natsSub \notin nats'.subs]_vars

\* A disconnect found nothing stored, an earlier disconnect having completed.
C4_Witness ==
  /\ ret.op = "disconnect" /\ ret.conn = Nil /\ ret.sub = NilSub
  /\ \E g \in DOMAIN bg : bg[g] = "done"

\* C5: a ReadBatch returns ErrNotConnected exactly when the handle it sampled
\* under connMut is nil, and then it returns no batch and no AckFunc and has
\* made no broker call.
C5_NotConnectedIffNoSub ==
  ret.op = "ReadBatch" =>
    /\ ret.err = "ErrNotConnected" <=> ret.sub = NilSub
    /\ ret.err = "ErrNotConnected" =>
         /\ ret.batch = <<>>
         /\ ret.reads = {}
         /\ ~ackFn[ret.caller].set

\* A ReadBatch returned ErrNotConnected after a disconnect.
C5_Witness ==
  /\ ret.op = "ReadBatch" /\ ret.err = "ErrNotConnected"
  /\ \E g \in DOMAIN bg : bg[g] \in {"trigger", "done"}

\* C6: in pull mode a timeout of one fetch (the broker's ErrTimeout or the
\* deadline of the bounded wait) is never returned while the caller's context
\* is active: the loop fetches again, however many timeouts came before; when
\* the caller's context is done as the timeout is handled, ReadBatch returns
\* that context's error and has made no further fetch.
C6_TimeoutRetriedUnlessCtxDone ==
  [][\A t \in Callers :
       /\ (/\ pc[t] \in {"r_fetch", "r_select"}
           /\ ret'.op = "ReadBatch" /\ ret'.caller = t
           /\ ret'.err \in {"ErrTimeout", "DeadlineExceeded"}) => ctx[t] # "active"
       /\ (pc[t] = "r_select" /\ pc'[t] # "r_select") =>
            IF ctx[t] = "active"
              THEN /\ pc'[t] = "r_fetch"
                   /\ ret' = NoRet
                   /\ timeouts'[t] = timeouts[t] + 1
              ELSE /\ ret'.op = "ReadBatch" /\ ret'.caller = t
                   /\ ret'.err = CtxErr(ctx[t])
                   /\ ret'.reads = reads[t]
                   /\ ret'.batch = <<>>]_vars

\* Three fetches in a row timed out with the caller's context active, and the
\* fourth is about to be made.
C6_Witness ==
  \E t \in Callers :
    pc[t] = "r_fetch" /\ timeouts[t] = 3 /\ ctx[t] = "active"

\* The verb an AckFunc called with the argument a settles messages with.
C_Verb(a) == IF a = NoErr THEN "Ack" ELSE "Nak"

\* C7: in push mode a successful ReadBatch returns a batch of exactly one
\* message with an AckFunc, and the AckFunc makes exactly one broker call, on
\* that message: Ack when its argument is nil, Nak when it is not.
C7_PushBatchOfOne ==
  /\ (ret.op = "ReadBatch" /\ ret.mode = "push" /\ ret.err = NoErr) =>
       /\ Len(ret.batch) = 1
       /\ ackFn[ret.caller].set
  /\ (ret.op = "AckFunc" /\ ret.mode = "push") =>
       /\ Len(ret.batch) = 1
       /\ Len(ret.calls) = 1
       /\ ret.calls[1][1] = C_Verb(ret.arg)
       /\ convertMessage(ret.calls[1][2]) = ret.batch[1]

\* The AckFunc of a push-mode batch was called with an error.
C7_Witness ==
  /\ ret.op = "AckFunc" /\ ret.mode = "push"
  /\ ret.arg # NoErr /\ Len(ret.calls) = 1

\* C8: when no Ack or Nak call fails, an AckFunc called with nil acks every
\* message of its batch, in batch order, and naks none; called with an error
\* it naks every message of its batch, in batch order, and acks none; it
\* makes no call on any other message; and it returns nil.
C8_AckFuncSettlesWholeBatch ==
  (ret.op = "AckFunc" /\ ret.failing = {}) =>
    /\ ret.err = NoErr
    /\ Len(ret.calls) = Len(ret.batch)
    /\ \A i \in 1..Len(ret.calls) :
         /\ ret.calls[i][1] = C_Verb(ret.arg)
         /\ convertMessage(ret.calls[i][2]) = ret.batch[i]

\* The AckFunc of a pull-mode batch of two messages was called with an error
\* and no call failed.
C8_Witness ==
  /\ ret.op = "AckFunc" /\ ret.mode = "pull" /\ ret.failing = {}
  /\ ret.arg # NoErr /\ Len(ret.batch) = 2 /\ Len(ret.calls) = 2

\* The place in the batch of the first message whose Ack or Nak fails.
C_FirstFailing ==
  CHOOSE i \in 1..Len(ret.batch) :
    /\ \E m \in ret.failing : convertMessage(m) = ret.batch[i]
    /\ \A k \in 1..(i - 1) :
         \A m \in ret.failing : convertMessage(m) # ret.batch[k]

\* C9: on both paths of an AckFunc the calls are made one after another, in
\* batch order, and stop at the first that fails: its error is returned and
\* no Ack or Nak is made on any later message of the batch.
C9_AckFuncStopsAtFirstFailure ==
  (ret.op = "AckFunc" /\ ret.failing # {}) =>
    /\ Len(ret.calls) = C_FirstFailing
    /\ \A i \in 1..Len(ret.calls) :
         /\ ret.calls[i][1] = C_Verb(ret.arg)
         /\ convertMessage(ret.calls[i][2]) = ret.batch[i]
    /\ ret.err = "Err" \o C_Verb(ret.arg)

\* The Ack of the first of two messages failed; the second was left alone.
C9_Witness ==
  /\ ret.op = "AckFunc" /\ ret.arg = NoErr
  /\ Len(ret.batch) = 2 /\ Len(ret.calls) = 1
  /\ ret.err = "ErrAck"

\* C10: Close returns nil only once the disconnect it launched has completed,
\* and returns its context's error when that context is done and the
\* disconnect it launched has not completed.
C10_CloseAwaitsItsDisconnect ==
  ret.op = "Close" =>
    /\ ret.err = NoErr => ret.bgDone
    /\ (ret.ctxDone /\ ~ret.bgDone) => ret.err # NoErr
    /\ ret.err # NoErr => ret.ctxDone

\* C11: a Connect that opens a subscription resolves the mode and the subject
\* it subscribes with. Binding to a named consumer of a named stream, it
\* looks the consumer up, the mode is pull exactly when the consumer has no
\* DeliverSubject, and the subject is the configured subject if that is not
\* empty, else the consumer's DeliverSubject if that is not empty, else its
\* FilterSubject. Otherwise it makes no lookup and the mode is push.
C11_ModeResolvedFromConsumer ==
  (ret.op = "Connect" /\ ret.err = NoErr /\ ret.sub # NilSub) =>
    IF conf.bind /\ conf.stream # "" /\ conf.durable # ""
      THEN /\ ret.lookup /\ ret.info.ok
           /\ pull = (ret.info.deliver = "")
           /\ ret.sub.pull = pull
           /\ subject = IF conf.subject # "" THEN conf.subject
                         ELSE IF ret.info.deliver # "" THEN ret.info.deliver
                         ELSE ret.info.filter
      ELSE /\ ~ret.lookup
           /\ ~pull /\ ~ret.sub.pull

\* C12: construction fails exactly when bind is set and stream and durable
\* are both empty, or bind is not set and subject and stream are both empty;
\* a reader that was not constructed never reaches the broker; a constructed
\* reader has stream or durable when it binds and subject or stream when it
\* does not.
C12_ConstructionValidates ==
  /\ ~built <=> \/ conf.bind /\ conf.stream = "" /\ conf.durable = ""
                \/ ~conf.bind /\ conf.subject = "" /\ conf.stream = ""
  /\ ~built => /\ calls = 0
                /\ nats = [conns |-> {}, subs |-> {}, misused |-> {}]
                /\ natsConn = Nil /\ natsSub = NilSub
  /\ built => /\ (conf.bind => (conf.stream # "" \/ conf.durable # ""))
               /\ (~conf.bind => (conf.subject # "" \/ conf.stream # ""))

\* Construction with bind set and neither stream nor durable failed.
C12_Witness ==
  ~built /\ conf.bind /\ conf.stream = "" /\ conf.durable = ""

\* C13: a ReadBatch that succeeds returns at least one message and at most
\* the 10 that buf holds, together with one AckFunc that holds exactly the
\* messages of that batch; a fetch that hands back no message and no error is
\* never returned as a batch.
C13_BatchNonEmptyAndBounded ==
  (ret.op = "ReadBatch" /\ ret.err = NoErr) =>
    /\ Len(ret.batch) >= 1
    /\ Len(ret.batch) <= 10
    /\ ackFn[ret.caller].set
    /\ ackFn[ret.caller].mode = ret.mode
    /\ Len(ackFn[ret.caller].msgs) = Len(ret.batch)
    /\ \A i \in 1..Len(ret.batch) :
         convertMessage(ackFn[ret.caller].msgs[i]) = ret.batch[i]

\* A pull-mode ReadBatch returned a batch of two messages.
C13_Witness ==
  /\ ret.op = "ReadBatch" /\ ret.err = NoErr /\ ret.mode = "pull"
  /\ Len(ret.batch) = 2 /\ ackFn[ret.caller].set

\* C14: the configured subject never changes: whatever calls were made,
\* j.subject is the subject the reader was built with.
C14_ConsumerSpecImmutable ==
  subject = conf.subject

\* The steps of a ReadBatch after it sampled the handle.
C_Reading == {"r_mode", "r_next", "r_fetch", "r_select"}

\* C15: a ReadBatch never holds connMut once it has sampled the handle: while
\* it chooses its mode and waits on the broker the mutex is free or held by a
\* Connect or a disconnect, never by the reading caller.
C15_ReadHoldsNoLock ==
  /\ \A t \in Callers : pc[t] \in C_Reading => connMut # t
  /\ connMut \in Callers => pc[connMut] = "c_open"

\* A ReadBatch waits on the handle it sampled after a disconnect drained that
\* handle and cleared the stored one.
C15_Witness ==
  \E t \in Callers :
    /\ pc[t] \in {"r_next", "r_fetch"}
    /\ lSub[t] # NilSub /\ lSub[t] \notin nats.subs
    /\ natsSub = NilSub /\ natsConn = Nil
    /\ \E g \in DOMAIN bg : bg[g] \in {"trigger", "done"}

\* The steps of a ReadBatch or a Close that has not returned.
C_Blocking == {"ReadBatch", "r_mode", "r_next", "r_fetch", "r_select",
               "Close", "cl_select"}

\* C16: once the context of a ReadBatch or of a Close is done, the call comes
\* to an end (it returns, or it panics on a result that overflows buf),
\* whatever the broker calls it makes return.
C16_ContextHonoured ==
  \A t \in Callers :
    (pc[t] \in C_Blocking /\ ctx[t] # "active") ~> (pc[t] \in {"idle", "panic"})

\* C17: a ReadBatch goes on after a failed broker call only when that call
\* was a pull fetch that timed out; every other error of a fetch, and every
\* error of a push receive, is what that ReadBatch returns, as it is, with no
\* batch and no AckFunc.
C17_OnlyTimeoutRecovered ==
  /\ \A t \in Callers :
       /\ pc[t] = "r_select" => lErr[t] \in {"ErrTimeout", "DeadlineExceeded"}
       /\ pc[t] \in {"r_mode", "r_next", "r_fetch"} => lErr[t] = NoErr
  /\ (/\ ret.op = "ReadBatch"
      /\ \/ ret.mode = "push" /\ ret.berr # NoErr
         \/ ret.berr \notin {NoErr, "ErrTimeout", "DeadlineExceeded"}) =>
       /\ ret.err = ret.berr
       /\ ret.batch = <<>>
       /\ ~ackFn[ret.caller].set

\* A pull-mode ReadBatch whose context was not done returned the error of a
\* fetch that was no timeout.
C17_Witness ==
  /\ ret.op = "ReadBatch" /\ ret.mode = "pull"
  /\ ret.berr = "ErrOther" /\ ret.err = "ErrOther"
  /\ ret.ctxDone = FALSE

\* C18: every broker call a ReadBatch makes is made on the handle it sampled
\* and is of that handle's kind: Fetch on a pull subscription, NextMsg on a
\* push subscription.
C18_ReadModeMatchesHandle ==
  /\ \A t \in Callers : \A r \in reads[t] :
       /\ r[2] = lSub[t]
       /\ (r[1] = "Fetch") <=> r[2].pull
  /\ ret.op = "ReadBatch" =>
       \A r \in ret.reads :
         /\ r[2] = ret.sub
         /\ (r[1] = "Fetch") <=> r[2].pull

\* C19: a Close returns nil only when the has-stopped signal it saw was that
\* of its own goroutine: the disconnect that this Close launched has returned.
C19_SuccessfulCloseDisconnected ==
  (ret.op = "Close" /\ ret.err = NoErr) => (ret.stopped /\ ret.bgDone)

\* C20: no handle is released twice and none out of order: no subscription
\* is drained that is not active, no connection is closed that is not open,
\* and no connection is closed while a subscription on it is still active.
C20_ReleaseOrderedAndOnce ==
  nats.misused = {}

\* A second disconnect released the handles of a reconnected reader, and
\* nothing is left open at the broker.
C20_Witness ==
  /\ ret.op = "disconnect" /\ ret.conn # Nil /\ ret.sub # NilSub
  /\ \E g \in DOMAIN bg : bg[g] = "done"
  /\ nats.conns = {} /\ nats.subs = {}

====
